---- MODULE Spec2Model ----
(***************************************************************************)
(* Model of the MCP bridge of local_proxy/mcp_proxy.py: the POST /mcp      *)
(* handler proxy_mcp, its direct ("stream") forwarding and its session     *)
(* ("sse") handshake send_sse_message.  The backend (the event stream, the *)
(* submission endpoint, the /mcp endpoint) is the environment: what it     *)
(* emits and answers is chosen nondeterministically from small sets.       *)
(*                                                                         *)
(* The module also models, each with variables and a specification of its  *)
(* own: the Kubernetes LLM proxy llm_proxy/llm_proxy.py (LlmSpec), the     *)
(* local LLM proxy app/llm_proxy.py (AppSpec), minio_logger of             *)
(* app/utils.py (LogSpec) and parse_log_file of llm_proxy/analyze_logs.py  *)
(* (ParseSpec).  WideSpec is the bridge with one call and more bodies.     *)
(***************************************************************************)
EXTENDS Integers, Sequences, FiniteSets, TLC

\* ---------------------------------------------------------------- bounds
\* Largest number of lines of a log file given to parse_log_file.
MaxLines == 3

\* Largest number of events the backend emits, over all streams together.
MaxEvents == 3

\* The concurrent inbound calls of POST /mcp.
Calls == {"c1", "c2"}

\* ---------------------------------------------------------------- values
\* Python None (endpoint_url, post_task) is the string "None".
None == "None"

MCP_SERVER_BASE_URL == "http://localhost:8001"

\* JSON values after parsing.  Python's None and JSON null are one value.
JNull == [type |-> "null"]
JReply(i) == [type |-> "object", id |-> i, result |-> i]
JAccepted == [type |-> "object", status |-> "accepted"]
JError(m) == [type |-> "object", error |-> m]

\* Inbound bodies: requests carry the key "id", notifications do not.
Bodies ==
  { [method |-> "query", id |-> "1"],
    [method |-> "ping"] }

\* Inbound bodies with and without each of the keys "id", "method" and
\* "params"; the id "null" is the JSON null, "1" the number 1.
WideBodies ==
  Bodies \cup
  { [method |-> "query", id |-> "null"],
    [id |-> "null"],
    [id |-> "1", params |-> "x"],
    [method |-> "query", params |-> "x"],
    [params |-> "x"] }

\* Event data the backend can put in a `message` event: a reply for id 1 in
\* compact layout (json.dumps writes it as MsgCanon1), a reply for another
\* id, the JSON text null, and a truncated text.
MsgCanon1 == "{\"id\": 1, \"result\": 1}"
MsgCompact1 == "{\"id\":1,\"result\":1}"
MsgCanon2 == "{\"id\": 2, \"result\": 2}"
MsgNull == "null"
MsgBroken == "{\"id\": 1,"
MessageData == {MsgCompact1, MsgCanon2, MsgNull, MsgBroken}

EndpointData == {"/messages/?session_id=a", "/messages/?session_id=b"}

SseEvents ==
  [event : {"endpoint"}, data : EndpointData]
    \cup [event : {"message"}, data : MessageData]
    \cup [event : {"ping"}, data : {""}]

\* Status codes the submission endpoint and the /mcp endpoint answer with.
PostStatuses == {202, 404, 500}
DirectStatuses == {200, 404, 500}
DirectBodies == {MsgCanon1, MsgCompact1, "Not Found"}
\* Response headers of the /mcp endpoint: with or without content-type.
DirectHeaders ==
  { [h \in {"content-type"} |-> "application/json"],
    [h \in {"content-type"} |-> "text/plain"],
    [h \in {} |-> ""] }

\* ---------------------------------------------------------------- pure functions
\* A json.loads that takes a truncated text for the reply it starts.
json_loads_lenient(s) ==
  CASE s = MsgCompact1 -> [ok |-> TRUE, value |-> JReply(1)]
    [] s = MsgCanon2 -> [ok |-> TRUE, value |-> JReply(2)]
    [] s = MsgNull -> [ok |-> TRUE, value |-> JNull]
    [] OTHER -> [ok |-> TRUE, value |-> JReply(1)]

\* json.loads on event data: the parsed value, or a JSONDecodeError.
json_loads(s) ==
  CASE s = MsgCanon1 -> [ok |-> TRUE, value |-> JReply(1)]
    [] s = MsgCompact1 -> [ok |-> TRUE, value |-> JReply(1)]
    [] s = MsgCanon2 -> [ok |-> TRUE, value |-> JReply(2)]
    [] s = MsgNull -> [ok |-> TRUE, value |-> JNull]
    [] OTHER -> [ok |-> FALSE, value |-> JNull]

\* json.dumps with the default separators.
json_dumps(v) ==
  CASE v = JNull -> "null"
    [] v = JReply(1) -> MsgCanon1
    [] v = JReply(2) -> MsgCanon2
    [] v = JAccepted -> "{\"status\": \"accepted\"}"
    [] OTHER -> "{\"error\": \"" \o v.error \o "\"}"

\* httpx Response.raise_for_status: success is 2xx.
is_success(status) == status >= 200 /\ status <= 299

\* The completion of a POST as recorded in post_status.
StatusName(status) == IF is_success(status) THEN "success" ELSE "failure"

\* dict.get(key, default) on the response headers.
headers_get(h, key, default) == IF key \in DOMAIN h THEN h[key] ELSE default

\* str(e) of the exceptions a call can end with.
NoEndpointMsg == "Did not receive endpoint from SSE server"
NoResponseMsg == "Did not receive response from SSE server"
DecodeMsg == "Expecting value"
ReadTimeoutMsg == "ReadTimeout"
ConnectMsg == "ConnectError"
StatusMsg(status) ==
  IF status >= 500 THEN "Server error" ELSE "Client error"

NoOutcome == [kind |-> "none", value |-> JNull, msg |-> ""]
Return(v) == [kind |-> "return", value |-> v, msg |-> ""]
Raise(m) == [kind |-> "raise", value |-> JNull, msg |-> m]

NoResponse == [status |-> 0, body |-> "", media_type |-> ""]

\* ---------------------------------------------------------------- state
VARIABLES
  transport,      \* MCP_TRANSPORT, read once at start-up
  pc,             \* where each inbound call is
  message,        \* the body of each inbound call
  sse_client,     \* TRUE while the call's event-stream client is open
  post_client,    \* TRUE while the call's submission client is open
  event_source,   \* the stream the call reads from (0: none)
  open_streams,   \* the streams that are open
  readers,        \* for each stream, the calls that read an event from it
  endpoint_url,
  response_data,
  post_task,      \* None, "scheduled", "inflight", "ok", "failed", "abandoned"
  post_error,     \* str(e) of the exception the submission ended with
  post_status,    \* how the submission POST completed ("none": it has not)
  events,         \* the events each call has read, in order
  posts,          \* the outbound POSTs each call has issued, in order
  outcome,        \* what send_sse_message returned or raised
  response,       \* what the caller receives
  stream_ended,   \* TRUE once the call's `async for` ran out of events
  connects,       \* number of times the call opened GET <base>/sse
  overlap,        \* TRUE once the call read a `message` event with its POST in flight
  PROXY_KEY,      \* llm_proxy: the key required from clients (None: unset)
  LLM_API_KEY,    \* llm_proxy: NRP_API_KEY (None: unset)
  llm_pc,         \* llm_proxy: where each chat request is
  authorization,  \* llm_proxy: the Authorization header of each request
  llm_out,        \* llm_proxy: the requests sent to the LLM endpoint, per request
  llm_upstream,   \* llm_proxy: how the LLM endpoint answered each request
  llm_response,   \* llm_proxy: what the client receives
  llm_route,      \* llm_proxy: the operation each request came to ("chat", "llm")
  PROXY_AUTH_TOKEN,  \* app/llm_proxy: the token required from clients (None: unset)
  APP_LLM_API_KEY,   \* app/llm_proxy: its NRP_API_KEY (None: unset)
  app_pc,            \* app/llm_proxy: where each /chat request is
  app_authorization, \* app/llm_proxy: the Authorization header of each request
  app_out,           \* app/llm_proxy: the requests sent to the LLM endpoint
  app_upstream,      \* app/llm_proxy: how the LLM endpoint answered
  app_response,      \* app/llm_proxy: what the client receives
  minio_bound,    \* utils: TRUE when the name `minio` is bound in app/utils.py
  stored,         \* utils: the rows of query_log.csv in the bucket
  local_file,     \* utils: the rows of the local query_log.csv (None: no file)
  logger_pc,      \* utils: where each call of minio_logger is
  logger_args,    \* utils: the arguments of each call
  logger_error,   \* utils: the exception each call ended with
  log_start,      \* utils: the rows in the bucket when each call started
  log_file,       \* analyze_logs: the lines of the file parse_log_file reads
  line_no,        \* analyze_logs: the number of lines read
  requests,
  responses,
  seen_request_timestamps,
  seen_response_timestamps,
  duplicate_requests,
  duplicate_responses,
  parse_pc        \* analyze_logs: "reading", "returned" or "raised"

vars ==
  << transport, pc, message, sse_client, post_client, event_source,
     open_streams, readers, endpoint_url, response_data,
     post_task, post_error, post_status, events, posts, outcome, response,
     stream_ended, connects, overlap >>

llm_vars ==
  << PROXY_KEY, LLM_API_KEY, llm_pc, authorization, llm_out, llm_upstream,
     llm_response, llm_route >>

app_vars ==
  << PROXY_AUTH_TOKEN, APP_LLM_API_KEY, app_pc, app_authorization, app_out,
     app_upstream, app_response >>

log_vars ==
  << minio_bound, stored, local_file, logger_pc, logger_args, logger_error,
     log_start >>

parse_vars ==
  << log_file, line_no, requests, responses, seen_request_timestamps,
     seen_response_timestamps, duplicate_requests, duplicate_responses,
     parse_pc >>

\* The state of the programs other than the bridge, other than the Kubernetes
\* LLM proxy, other than the local LLM proxy, other than the query log, and
\* other than the log analysis.
not_mcp == << llm_vars, app_vars, log_vars, parse_vars >>
not_llm == << vars, app_vars, log_vars, parse_vars >>
not_app == << vars, llm_vars, log_vars, parse_vars >>
not_log == << vars, llm_vars, app_vars, parse_vars >>
not_parse == << vars, llm_vars, app_vars, log_vars >>

all_vars == << vars, llm_vars, app_vars, log_vars, parse_vars >>

\* A pooled stream: every call is handed the same one.
SharedStream(c) == 1

\* Every `async with aconnect_sse(...)` makes a stream of its own.
NewStream(c) == IF c = "c1" THEN 1 ELSE 2

StreamIds == {NewStream(c) : c \in Calls}

\* Every message posted with a blocking await, requests too.
AwaitsEveryPost(c) == TRUE

\* A classification by the wrong key: every body has a method.
is_notification_by_method(c) == "method" \notin DOMAIN message[c]

\* A classification by the value of the id: a null id taken for no id.
is_notification_null_id(c) ==
  "id" \notin DOMAIN message[c] \/ message[c].id = "null"

is_notification(c) == "id" \notin DOMAIN message[c]

RECURSIVE EventsRead(_)
EventsRead(cs) ==
  IF cs = {} THEN 0
  ELSE LET c == CHOOSE x \in cs : TRUE IN Len(events[c]) + EventsRead(cs \ {c})

McpInit ==
  /\ transport \in {"sse", "stream"}
  /\ pc = [c \in Calls |-> "idle"]
  /\ message = [c \in Calls |-> [method |-> "ping"]]
  /\ sse_client = [c \in Calls |-> FALSE]
  /\ post_client = [c \in Calls |-> FALSE]
  /\ event_source = [c \in Calls |-> 0]
  /\ open_streams = {}
  /\ readers = [s \in StreamIds |-> {}]
  /\ endpoint_url = [c \in Calls |-> None]
  /\ response_data = [c \in Calls |-> JNull]
  /\ post_task = [c \in Calls |-> None]
  /\ post_error = [c \in Calls |-> ""]
  /\ post_status = [c \in Calls |-> "none"]
  /\ events = [c \in Calls |-> << >>]
  /\ posts = [c \in Calls |-> << >>]
  /\ outcome = [c \in Calls |-> NoOutcome]
  /\ response = [c \in Calls |-> NoResponse]
  /\ stream_ended = [c \in Calls |-> FALSE]
  /\ connects = [c \in Calls |-> 0]
  /\ overlap = [c \in Calls |-> FALSE]

\* ---------------------------------------------------------------- proxy_mcp
\* POST /mcp arrives.  In stream mode the body is posted to <base>/mcp; in
\* sse mode send_sse_message starts and enters both client contexts.
proxy_mcp(c, body) ==
  /\ pc[c] = "idle"
  /\ message' = [message EXCEPT ![c] = body]
  /\ IF transport = "stream"
       THEN /\ pc' = [pc EXCEPT ![c] = "direct"]
            /\ posts' = [posts EXCEPT ![c] =
                 Append(@, [url |-> MCP_SERVER_BASE_URL \o "/mcp", json |-> body])]
            /\ UNCHANGED << sse_client, post_client >>
       ELSE /\ pc' = [pc EXCEPT ![c] = "connecting"]
            /\ sse_client' = [sse_client EXCEPT ![c] = TRUE]
            /\ post_client' = [post_client EXCEPT ![c] = TRUE]
            /\ UNCHANGED posts
  /\ UNCHANGED << transport, stream_ended, connects, overlap, event_source, open_streams, readers,
                  endpoint_url, response_data, post_task, post_error, post_status, events,
                  outcome, response >>

\* A relay that answers 200 whatever the backend said.
DirectResponseAlwaysOk(status, content, headers) ==
  [status |-> 200,
   body |-> content,
   media_type |-> headers_get(headers, "content-type", "application/json")]

\* The response of stream mode: status, content and content-type relayed.
DirectResponse(status, content, headers) ==
  [status |-> status,
   body |-> content,
   media_type |-> headers_get(headers, "content-type", "application/json")]

\* Stream mode: the backend answered.
DirectRelay(c, status, content, headers) ==
  /\ pc[c] = "direct"
  /\ response' = [response EXCEPT ![c] = DirectResponse(status, content, headers)]
  /\ outcome' = [outcome EXCEPT ![c] =
       [kind |-> "backend", value |-> JNull, msg |-> "",
        status |-> status, content |-> content, headers |-> headers]]
  /\ pc' = [pc EXCEPT ![c] = "done"]
  /\ UNCHANGED << transport, stream_ended, connects, overlap, message, sse_client, post_client, event_source,
                  open_streams, readers, endpoint_url,
                  response_data, post_task, post_error, post_status, events, posts >>

\* A failure of the POST swallowed: an empty 200.
DirectFailSwallowed ==
  [status |-> 200, body |-> "", media_type |-> "application/json"]

\* What the caller gets when the handler raises: the framework's plain 500.
DirectFailResponse ==
  [status |-> 500, body |-> "Internal Server Error", media_type |-> "text/plain"]

\* Stream mode: the POST raised (no try/except around it); the framework
\* answers 500.
DirectFail(c) ==
  /\ pc[c] = "direct"
  /\ response' = [response EXCEPT ![c] = DirectFailResponse]
  /\ outcome' = [outcome EXCEPT ![c] = Raise(ConnectMsg)]
  /\ pc' = [pc EXCEPT ![c] = "done"]
  /\ UNCHANGED << transport, stream_ended, connects, overlap, message, sse_client, post_client, event_source,
                  open_streams, readers, endpoint_url,
                  response_data, post_task, post_error, post_status, events, posts >>

\* An error payload sent with status 200.
SseResponseAlwaysOk(o) ==
  IF o.kind = "return"
    THEN [status |-> 200, body |-> json_dumps(o.value), media_type |-> "application/json"]
    ELSE [status |-> 200, body |-> json_dumps(JError(o.msg)), media_type |-> "application/json"]

\* The response proxy_mcp builds from what send_sse_message returned or raised.
SseResponse(o) ==
  IF o.kind = "return"
    THEN [status |-> 200, body |-> json_dumps(o.value), media_type |-> "application/json"]
    ELSE [status |-> 500, body |-> json_dumps(JError(o.msg)), media_type |-> "application/json"]

\* ---------------------------------------------------------------- send_sse_message
\* An exit that closes the stream and its client but not the submission client.
ExitContextsLeakPost(c, es) ==
  /\ open_streams' = open_streams \ {es}
  /\ sse_client' = [sse_client EXCEPT ![c] = FALSE]
  /\ UNCHANGED post_client

\* An exit that tears down every open stream, as a client pool shared between
\* the calls would.
ExitContextsCloseAll(c, es) ==
  /\ open_streams' = {}
  /\ sse_client' = [sse_client EXCEPT ![c] = FALSE]
  /\ post_client' = [post_client EXCEPT ![c] = FALSE]

\* What leaving the `async with` blocks does to the call's stream and clients:
\* the stream es is closed, both clients are closed.
ExitContexts(c, es) ==
  /\ open_streams' = open_streams \ {es}
  /\ sse_client' = [sse_client EXCEPT ![c] = FALSE]
  /\ post_client' = [post_client EXCEPT ![c] = FALSE]

\* send_sse_message ends with outcome o (a return or a raise): the contexts
\* are left, a submission task still pending is left behind un-awaited, and
\* proxy_mcp answers the caller.
Finish(c, o, es) ==
  /\ ExitContexts(c, es)
  /\ post_task' = [post_task EXCEPT ![c] =
       IF @ \in {"scheduled", "inflight"} THEN "abandoned" ELSE @]
  /\ outcome' = [outcome EXCEPT ![c] = o]
  /\ response' = [response EXCEPT ![c] = SseResponse(o)]
  /\ pc' = [pc EXCEPT ![c] = "done"]

\* aconnect_sse: GET <base>/sse opens a fresh stream; raise_for_status passes.
ConnectOk(c) ==
  /\ pc[c] = "connecting"
  /\ event_source' = [event_source EXCEPT ![c] = NewStream(c)]
  /\ open_streams' = open_streams \cup {NewStream(c)}
  /\ pc' = [pc EXCEPT ![c] = "reading"]
  /\ connects' = [connects EXCEPT ![c] = @ + 1]
  /\ UNCHANGED << transport, stream_ended, overlap, message, sse_client, post_client, readers,
                  endpoint_url, response_data, post_task, post_error, post_status, events,
                  posts, outcome, response >>

\* aconnect_sse: the stream opened with a non-success status and
\* raise_for_status raises inside the stream's context.
ConnectBadStatus(c, status) ==
  /\ pc[c] = "connecting"
  /\ ~is_success(status)
  /\ event_source' = [event_source EXCEPT ![c] = NewStream(c)]
  /\ Finish(c, Raise(StatusMsg(status)), NewStream(c))
  /\ connects' = [connects EXCEPT ![c] = @ + 1]
  /\ UNCHANGED << transport, stream_ended, overlap, message, readers, endpoint_url, response_data,
                  post_error, post_status, events, posts >>

\* A failed connection tried again instead of reported.
ConnectFailRetry(c) ==
  /\ pc[c] = "connecting"
  /\ connects' = [connects EXCEPT ![c] = @ + 1]
  /\ UNCHANGED << transport, pc, message, sse_client, post_client, event_source,
                  open_streams, readers, endpoint_url, response_data, post_task,
                  post_error, post_status, events, posts, outcome, response,
                  stream_ended, overlap >>

\* aconnect_sse: the connection could not be established.
ConnectFail(c) ==
  /\ pc[c] = "connecting"
  /\ Finish(c, Raise(ConnectMsg), event_source[c])
  /\ connects' = [connects EXCEPT ![c] = @ + 1]
  /\ UNCHANGED << transport, stream_ended, overlap, message, event_source, readers, endpoint_url,
                  response_data, post_error, post_status, events, posts >>

\* The first event taken for the endpoint event, whatever its type.
FirstEventIsEndpoint(c, e) == endpoint_url[c] = None

\* Every endpoint event honoured, not only the first.
EveryEndpointEvent(c, e) == e.event = "endpoint"

\* `if event.event == "endpoint" and endpoint_url is None`
IsEndpointEvent(c, e) == e.event = "endpoint" /\ endpoint_url[c] = None

\* No `break`: the loop goes on reading after a `message` event.
AfterMessageNoBreak == "reading"

\* Where the handler is after a `message` event was parsed: `break`.
AfterMessage == "after_loop"

\* One iteration of `async for event in event_source.aiter_sse()`.
ReadEvent(c, e) ==
  /\ pc[c] = "reading"
  /\ EventsRead(Calls) < MaxEvents
  /\ events' = [events EXCEPT ![c] = Append(@, e)]
  /\ readers' = [readers EXCEPT ![event_source[c]] = @ \cup {c}]
  /\ IF IsEndpointEvent(c, e)
       THEN /\ endpoint_url' = [endpoint_url EXCEPT ![c] = MCP_SERVER_BASE_URL \o e.data]
            /\ IF is_notification(c)
                 THEN \* await post_message(): the POST goes out now
                      /\ posts' = [posts EXCEPT ![c] =
                           Append(@, [url |-> endpoint_url'[c], json |-> message[c]])]
                      /\ pc' = [pc EXCEPT ![c] = "notif_post"]
                      /\ UNCHANGED post_task
                 ELSE \* asyncio.create_task(post_message())
                      /\ post_task' = [post_task EXCEPT ![c] = "scheduled"]
                      /\ UNCHANGED << posts, pc >>
            /\ UNCHANGED << response_data, outcome, response, open_streams,
                            sse_client, post_client >>
       ELSE IF e.event = "message"
         THEN IF json_loads(e.data).ok
                THEN /\ response_data' = [response_data EXCEPT ![c] = json_loads(e.data).value]
                     /\ pc' = [pc EXCEPT ![c] = AfterMessage]
                     /\ UNCHANGED << endpoint_url, post_task, posts, outcome,
                                     response, open_streams, sse_client, post_client >>
                ELSE \* json.loads raises: no line after it runs
                     /\ Finish(c, Raise(DecodeMsg), event_source[c])
                     /\ UNCHANGED << endpoint_url, posts, response_data >>
         ELSE UNCHANGED << endpoint_url, post_task, posts, response_data,
                           outcome, pc, response, open_streams, sse_client,
                           post_client >>
  /\ overlap' = [overlap EXCEPT ![c] = @ \/ (e.event = "message" /\ post_task[c] = "inflight")]
  /\ UNCHANGED << transport, stream_ended, connects, message, event_source, post_error, post_status >>

\* The stream ends: the loop falls through.
StreamEnd(c) ==
  /\ pc[c] = "reading"
  /\ pc' = [pc EXCEPT ![c] = "after_loop"]
  /\ stream_ended' = [stream_ended EXCEPT ![c] = TRUE]
  /\ UNCHANGED << transport, connects, overlap, message, sse_client, post_client, event_source,
                  open_streams, readers, endpoint_url,
                  response_data, post_task, post_error, post_status, events, posts, outcome,
                  response >>

\* No event within the read timeout of sse_client (60 s): aiter_sse raises.
ReadTimeout(c) ==
  /\ pc[c] = "reading"
  /\ Finish(c, Raise(ReadTimeoutMsg), event_source[c])
  /\ UNCHANGED << transport, stream_ended, connects, overlap, message, event_source, readers, endpoint_url,
                  response_data, post_error, post_status, events, posts >>

\* Notification: `await post_message()` completes with a status, then
\* raise_for_status and `return {"status": "accepted"}`.
NotifPostDone(c, status) ==
  /\ pc[c] = "notif_post"
  /\ Finish(c, IF is_success(status) THEN Return(JAccepted) ELSE Raise(StatusMsg(status)),
            event_source[c])
  /\ post_error' = [post_error EXCEPT ![c] =
       IF is_success(status) THEN "" ELSE StatusMsg(status)]
  /\ post_status' = [post_status EXCEPT ![c] = StatusName(status)]
  /\ UNCHANGED << transport, stream_ended, connects, overlap, message, event_source, readers, endpoint_url,
                  response_data, events, posts >>

\* A network failure of the notification's POST taken for an acceptance.
NotifPostErrorAccepted(c) ==
  /\ pc[c] = "notif_post"
  /\ Finish(c, Return(JAccepted), event_source[c])
  /\ post_error' = [post_error EXCEPT ![c] = ConnectMsg]
  /\ post_status' = [post_status EXCEPT ![c] = "error"]
  /\ UNCHANGED << transport, stream_ended, connects, overlap, message, event_source, readers, endpoint_url,
                  response_data, events, posts >>

\* Notification: the POST failed below HTTP (connect error, timeout).
NotifPostError(c) ==
  /\ pc[c] = "notif_post"
  /\ Finish(c, Raise(ConnectMsg), event_source[c])
  /\ post_error' = [post_error EXCEPT ![c] = ConnectMsg]
  /\ post_status' = [post_status EXCEPT ![c] = "error"]
  /\ UNCHANGED << transport, stream_ended, connects, overlap, message, event_source, readers, endpoint_url,
                  response_data, events, posts >>

\* Request: the task made by create_task gets to run and sends the POST.
\* It runs whenever the handler is suspended (reading, or awaiting the task).
PostTaskStart(c) ==
  /\ pc[c] \in {"reading", "after_loop"}
  /\ post_task[c] = "scheduled"
  /\ posts' = [posts EXCEPT ![c] =
       Append(@, [url |-> endpoint_url[c], json |-> message[c]])]
  /\ post_task' = [post_task EXCEPT ![c] = "inflight"]
  /\ UNCHANGED << transport, stream_ended, connects, overlap, pc, message, sse_client, post_client, event_source,
                  open_streams, readers, endpoint_url,
                  response_data, post_error, post_status, events, outcome, response >>

\* Request: the POST completes with a status; raise_for_status decides.
PostTaskDone(c, status) ==
  /\ post_task[c] = "inflight"
  /\ post_task' = [post_task EXCEPT ![c] =
       IF is_success(status) THEN "ok" ELSE "failed"]
  /\ post_error' = [post_error EXCEPT ![c] =
       IF is_success(status) THEN "" ELSE StatusMsg(status)]
  /\ post_status' = [post_status EXCEPT ![c] = StatusName(status)]
  /\ UNCHANGED << transport, stream_ended, connects, overlap, pc, message, sse_client, post_client, event_source,
                  open_streams, readers, endpoint_url,
                  response_data, events, posts, outcome, response >>

\* A failure of the task that ends the call at once, the loop still reading.
PostTaskErrorFailFast(c) ==
  /\ post_task[c] = "inflight"
  /\ Finish(c, Raise(ConnectMsg), event_source[c])
  /\ post_error' = [post_error EXCEPT ![c] = ConnectMsg]
  /\ post_status' = [post_status EXCEPT ![c] = "error"]
  /\ UNCHANGED << transport, stream_ended, connects, overlap, message, event_source, readers, endpoint_url,
                  response_data, events, posts >>

\* Request: the POST failed below HTTP.
PostTaskError(c) ==
  /\ post_task[c] = "inflight"
  /\ post_task' = [post_task EXCEPT ![c] = "failed"]
  /\ post_error' = [post_error EXCEPT ![c] = ConnectMsg]
  /\ post_status' = [post_status EXCEPT ![c] = "error"]
  /\ UNCHANGED << transport, stream_ended, connects, overlap, pc, message, sse_client, post_client, event_source,
                  open_streams, readers, endpoint_url,
                  response_data, events, posts, outcome, response >>

\* The lines after the loop without the check of response_data.
AfterLoopOutcomeNoResponseCheck(c) ==
  IF post_task[c] = "failed" THEN Raise(post_error[c])
  ELSE IF endpoint_url[c] = None THEN Raise(NoEndpointMsg)
  ELSE Return(response_data[c])

\* The two checks made before the task's result is looked at.
AfterLoopOutcomeChecksFirst(c) ==
  IF endpoint_url[c] = None THEN Raise(NoEndpointMsg)
  ELSE IF ~is_notification(c) /\ response_data[c] = JNull THEN Raise(NoResponseMsg)
  ELSE IF post_task[c] = "failed" THEN Raise(post_error[c])
  ELSE Return(response_data[c])

\* The missing response told by no `message` event having been read, so that
\* a payload null counts as a response.
AfterLoopOutcomeNullIsPayload(c) ==
  IF post_task[c] = "failed" THEN Raise(post_error[c])
  ELSE IF endpoint_url[c] = None THEN Raise(NoEndpointMsg)
  ELSE IF ~is_notification(c) /\ (\A i \in 1 .. Len(events[c]) : events[c][i].event # "message")
    THEN Raise(NoResponseMsg)
  ELSE Return(response_data[c])

\* The lines after the loop without `await post_task`.
AfterLoopOutcomeNoAwait(c) ==
  IF endpoint_url[c] = None THEN Raise(NoEndpointMsg)
  ELSE IF ~is_notification(c) /\ response_data[c] = JNull THEN Raise(NoResponseMsg)
  ELSE Return(response_data[c])

\* What the lines after the loop return or raise, the task having completed.
AfterLoopOutcome(c) ==
  IF post_task[c] = "failed" THEN Raise(post_error[c])
  ELSE IF endpoint_url[c] = None THEN Raise(NoEndpointMsg)
  ELSE IF ~is_notification(c) /\ response_data[c] = JNull THEN Raise(NoResponseMsg)
  ELSE Return(response_data[c])

\* After the loop: `await post_task` if it was started, then the two checks
\* and `return response_data`.
AfterLoop(c) ==
  /\ pc[c] = "after_loop"
  /\ post_task[c] \in {None, "ok", "failed"}
  /\ Finish(c, AfterLoopOutcome(c), event_source[c])
  /\ UNCHANGED << transport, stream_ended, connects, overlap, message, event_source, readers, endpoint_url,
                  response_data, post_error, post_status, events, posts >>


\* ---------------------------------------------------------------- llm_proxy
\* The chat requests in flight at the LLM proxy.
LlmReqs == {"r1", "r2"}

LLM_ENDPOINT == "https://ellm.nrp-nautilus.io/v1/chat/completions"

\* Authorization headers, as the pieces of text they are made of; NoHeader is
\* the header not sent (Header(None)).
NoHeader == << "absent" >>
AuthHeaders ==
  { NoHeader,
    << >>,
    << "Bearer " >>,
    << "Bearer ", "secret" >>,
    << "secret" >>,
    << "Bearer ", "secret", " " >>,
    << "Bearer ", "wrong" >>,
    << "sec", "Bearer ", "ret" >> }

\* The values PROXY_KEY and NRP_API_KEY can have in the environment.
KeyValues == {None, "secret"}
ApiKeyValues == {None, "nrp-key"}

\* Python truth of an environment value or a string: None and "" are false.
Falsy(x) == x = None \/ x = ""

\* The text of a header made of pieces.
RECURSIVE Flatten(_)
Flatten(h) == IF h = << >> THEN "" ELSE Head(h) \o Flatten(Tail(h))

\* str.replace('Bearer ', ''): every occurrence goes, wherever it is.
RECURSIVE ReplaceBearer(_)
ReplaceBearer(h) ==
  IF h = << >> THEN << >>
  ELSE IF Head(h) = "Bearer " THEN ReplaceBearer(Tail(h))
  ELSE << Head(h) >> \o ReplaceBearer(Tail(h))

\* str.strip(): leading and trailing white space goes.
RECURSIVE Strip(_)
Strip(h) ==
  IF h = << >> THEN << >>
  ELSE IF Head(h) = " " THEN Strip(Tail(h))
  ELSE IF h[Len(h)] = " " THEN Strip(SubSeq(h, 1, Len(h) - 1))
  ELSE h

\* client_key of proxy_chat: None without a header or with an empty one,
\* else authorization.replace('Bearer ', '').strip().
ClientKey(h) ==
  IF h = NoHeader \/ h = << >> THEN None ELSE Flatten(Strip(ReplaceBearer(h)))

\* Bodies and statuses the LLM endpoint answers with.
LlmJsonBody == "{\"choices\": []}"
LlmBodies == {LlmJsonBody, "<html>"}
LlmStatuses == {200, 401, 503}

\* str(status_code) in the detail of a status error.
LlmStatusText(status) ==
  CASE status = 200 -> "200" [] status = 401 -> "401" [] status = 503 -> "503"

NoUpstream == [kind |-> "none", status |-> 0, body |-> ""]
HttpError(status, detail) == [status |-> status, body |-> detail]
NoLlmResponse == [status |-> 0, body |-> ""]

\* The proxy at rest: nothing configured, no request.
LlmQuiet ==
  /\ PROXY_KEY = None
  /\ LLM_API_KEY = None
  /\ llm_pc = [r \in LlmReqs |-> "idle"]
  /\ authorization = [r \in LlmReqs |-> NoHeader]
  /\ llm_out = [r \in LlmReqs |-> << >>]
  /\ llm_upstream = [r \in LlmReqs |-> NoUpstream]
  /\ llm_response = [r \in LlmReqs |-> NoLlmResponse]
  /\ llm_route = [r \in LlmReqs |-> "none"]

\* `not (not client_key or client_key != PROXY_KEY)`
Authorized(h) == ~Falsy(ClientKey(h)) /\ ClientKey(h) = PROXY_KEY

\* The checks with the client's key looked at first.
ChatGateKeyFirst(h) ==
  IF ~Authorized(h) THEN HttpError(401, "Unauthorized: Invalid or missing proxy key")
  ELSE IF Falsy(PROXY_KEY) THEN HttpError(500, "PROXY_KEY not configured on server")
  ELSE IF Falsy(LLM_API_KEY) THEN HttpError(500, "NRP_API_KEY not configured on server")
  ELSE [status |-> 0, body |-> "forward"]

\* What proxy_chat decides before it calls the LLM endpoint: the error it
\* raises, or "forward".
ChatGate(h) ==
  IF Falsy(PROXY_KEY) THEN HttpError(500, "PROXY_KEY not configured on server")
  ELSE IF ~Authorized(h) THEN HttpError(401, "Unauthorized: Invalid or missing proxy key")
  ELSE IF Falsy(LLM_API_KEY) THEN HttpError(500, "NRP_API_KEY not configured on server")
  ELSE [status |-> 0, body |-> "forward"]

\* POST /v1/chat/completions or /chat arrives: the checks, then the POST to
\* the LLM endpoint with the server's key.
proxy_chat(r, h) ==
  /\ llm_pc[r] = "idle"
  /\ authorization' = [authorization EXCEPT ![r] = h]
  /\ IF ChatGate(h).body = "forward"
       THEN /\ llm_out' = [llm_out EXCEPT ![r] =
                 Append(@, [url |-> LLM_ENDPOINT,
                            authorization |-> "Bearer " \o LLM_API_KEY])]
            /\ llm_pc' = [llm_pc EXCEPT ![r] = "awaiting"]
            /\ UNCHANGED llm_response
       ELSE /\ llm_response' = [llm_response EXCEPT ![r] = ChatGate(h)]
            /\ llm_pc' = [llm_pc EXCEPT ![r] = "done"]
            /\ UNCHANGED llm_out
  /\ llm_route' = [llm_route EXCEPT ![r] = "chat"]
  /\ UNCHANGED << PROXY_KEY, LLM_API_KEY, llm_upstream >>

\* The LLM endpoint answered: raise_for_status, then response.json().
ChatUpstreamReply(r, status, body) ==
  /\ llm_pc[r] = "awaiting"
  /\ llm_upstream' = [llm_upstream EXCEPT ![r] =
       [kind |-> "reply", status |-> status, body |-> body]]
  /\ llm_response' = [llm_response EXCEPT ![r] =
       IF ~is_success(status) THEN HttpError(500, "LLM API returned " \o LlmStatusText(status) \o ": " \o body)
       ELSE IF body # LlmJsonBody THEN HttpError(500, "LLM request failed")
       ELSE [status |-> 200, body |-> body]]
  /\ llm_pc' = [llm_pc EXCEPT ![r] = "done"]
  /\ UNCHANGED << PROXY_KEY, LLM_API_KEY, authorization, llm_out, llm_route >>

\* httpx.TimeoutException: 504.
ChatUpstreamTimeout(r) ==
  /\ llm_pc[r] = "awaiting"
  /\ llm_upstream' = [llm_upstream EXCEPT ![r] =
       [kind |-> "timeout", status |-> 0, body |-> ""]]
  /\ llm_response' = [llm_response EXCEPT ![r] = HttpError(504, "LLM request timed out")]
  /\ llm_pc' = [llm_pc EXCEPT ![r] = "done"]
  /\ UNCHANGED << PROXY_KEY, LLM_API_KEY, authorization, llm_out, llm_route >>

\* Any other exception of the POST: 500.
ChatUpstreamError(r) ==
  /\ llm_pc[r] = "awaiting"
  /\ llm_upstream' = [llm_upstream EXCEPT ![r] =
       [kind |-> "error", status |-> 0, body |-> ""]]
  /\ llm_response' = [llm_response EXCEPT ![r] = HttpError(500, "LLM request failed")]
  /\ llm_pc' = [llm_pc EXCEPT ![r] = "done"]
  /\ UNCHANGED << PROXY_KEY, LLM_API_KEY, authorization, llm_out, llm_route >>

\* What proxy_llm decides before it calls the LLM endpoint: it has no check.
LlmGate(h) == [status |-> 0, body |-> "forward"]

\* POST /llm arrives: the request is sent on with the server's key in place
\* of the client's Authorization header.
proxy_llm(r, h) ==
  /\ llm_pc[r] = "idle"
  /\ authorization' = [authorization EXCEPT ![r] = h]
  /\ llm_route' = [llm_route EXCEPT ![r] = "llm"]
  /\ IF LlmGate(h).body = "forward"
       THEN /\ llm_out' = [llm_out EXCEPT ![r] =
                 Append(@, [url |-> LLM_ENDPOINT,
                            authorization |-> "Bearer " \o LLM_API_KEY])]
            /\ llm_pc' = [llm_pc EXCEPT ![r] = "relaying"]
            /\ UNCHANGED llm_response
       ELSE /\ llm_response' = [llm_response EXCEPT ![r] = LlmGate(h)]
            /\ llm_pc' = [llm_pc EXCEPT ![r] = "done"]
            /\ UNCHANGED llm_out
  /\ UNCHANGED << PROXY_KEY, LLM_API_KEY, llm_upstream >>

\* /llm: the LLM endpoint answered; status and content are relayed.
LlmRelay(r, status, body) ==
  /\ llm_pc[r] = "relaying"
  /\ llm_upstream' = [llm_upstream EXCEPT ![r] =
       [kind |-> "reply", status |-> status, body |-> body]]
  /\ llm_response' = [llm_response EXCEPT ![r] = [status |-> status, body |-> body]]
  /\ llm_pc' = [llm_pc EXCEPT ![r] = "done"]
  /\ UNCHANGED << PROXY_KEY, LLM_API_KEY, authorization, llm_out, llm_route >>

\* /llm: the POST raised: 500 with str(e).
LlmRelayError(r) ==
  /\ llm_pc[r] = "relaying"
  /\ llm_upstream' = [llm_upstream EXCEPT ![r] =
       [kind |-> "error", status |-> 0, body |-> ""]]
  /\ llm_response' = [llm_response EXCEPT ![r] = HttpError(500, ConnectMsg)]
  /\ llm_pc' = [llm_pc EXCEPT ![r] = "done"]
  /\ UNCHANGED << PROXY_KEY, LLM_API_KEY, authorization, llm_out, llm_route >>

\* ---------------------------------------------------------------- app/llm_proxy
\* The /chat requests in flight at the local LLM proxy.
AppReqs == {"a1", "a2"}

APP_LLM_ENDPOINT == "https://ellm.nrp-nautilus.io/v1/chat/completions"

\* Authorization headers sent to the local proxy, in pieces.
AppAuthHeaders ==
  { NoHeader,
    << >>,
    << "Bearer " >>,
    << "Bearer ", "secret" >>,
    << "secret" >>,
    << "bearer ", "secret" >>,
    << "Bearer ", "secret", " " >>,
    << "Bearer ", "wrong" >>,
    << "Bearer ", "Bearer ", "secret" >> }

\* The values PROXY_AUTH_TOKEN can have in the environment: unset, set to
\* the empty text, set to a token.
TokenValues == {None, "", "secret"}

\* authorization.startswith("Bearer ")
StartsWithBearer(h) == h # << >> /\ Head(h) = "Bearer "

\* authorization[7:], for a header that starts with "Bearer ".
BearerToken(h) == Flatten(Tail(h))

\* The local proxy at rest: nothing configured, no request.
AppQuiet ==
  /\ PROXY_AUTH_TOKEN = None
  /\ APP_LLM_API_KEY = None
  /\ app_pc = [r \in AppReqs |-> "idle"]
  /\ app_authorization = [r \in AppReqs |-> NoHeader]
  /\ app_out = [r \in AppReqs |-> << >>]
  /\ app_upstream = [r \in AppReqs |-> NoUpstream]
  /\ app_response = [r \in AppReqs |-> NoLlmResponse]

\* A check that takes the header's text, with or without "Bearer ", for the
\* token, as the Kubernetes proxy does.
AppChatGateAnyFormat(h) ==
  IF ~Falsy(PROXY_AUTH_TOKEN) /\ (h = NoHeader \/ h = << >>)
    THEN HttpError(401, "Authorization header required")
  ELSE IF ~Falsy(PROXY_AUTH_TOKEN) /\ ClientKey(h) # PROXY_AUTH_TOKEN
    THEN HttpError(403, "Invalid authorization token")
  ELSE IF Falsy(APP_LLM_API_KEY)
    THEN HttpError(500, "NRP_API_KEY not configured on server")
  ELSE [status |-> 0, body |-> "forward"]

\* What proxy_chat of the local proxy decides before it calls the LLM
\* endpoint: the error it raises, or "forward".
AppChatGate(h) ==
  IF ~Falsy(PROXY_AUTH_TOKEN) /\ (h = NoHeader \/ h = << >>)
    THEN HttpError(401, "Authorization header required")
  ELSE IF ~Falsy(PROXY_AUTH_TOKEN) /\ ~StartsWithBearer(h)
    THEN HttpError(401, "Invalid authorization format")
  ELSE IF ~Falsy(PROXY_AUTH_TOKEN) /\ BearerToken(h) # PROXY_AUTH_TOKEN
    THEN HttpError(403, "Invalid authorization token")
  ELSE IF Falsy(APP_LLM_API_KEY)
    THEN HttpError(500, "NRP_API_KEY not configured on server")
  ELSE [status |-> 0, body |-> "forward"]

\* POST /chat arrives at the local proxy: the checks, then the POST to the
\* LLM endpoint with the server's key.
app_proxy_chat(r, h) ==
  /\ app_pc[r] = "idle"
  /\ app_authorization' = [app_authorization EXCEPT ![r] = h]
  /\ IF AppChatGate(h).body = "forward"
       THEN /\ app_out' = [app_out EXCEPT ![r] =
                 Append(@, [url |-> APP_LLM_ENDPOINT,
                            authorization |-> "Bearer " \o APP_LLM_API_KEY])]
            /\ app_pc' = [app_pc EXCEPT ![r] = "awaiting"]
            /\ UNCHANGED app_response
       ELSE /\ app_response' = [app_response EXCEPT ![r] = AppChatGate(h)]
            /\ app_pc' = [app_pc EXCEPT ![r] = "done"]
            /\ UNCHANGED app_out
  /\ UNCHANGED << PROXY_AUTH_TOKEN, APP_LLM_API_KEY, app_upstream >>

\* The LLM endpoint answered: raise_for_status, then response.json().
AppUpstreamReply(r, status, body) ==
  /\ app_pc[r] = "awaiting"
  /\ app_upstream' = [app_upstream EXCEPT ![r] =
       [kind |-> "reply", status |-> status, body |-> body]]
  /\ app_response' = [app_response EXCEPT ![r] =
       IF ~is_success(status)
         THEN HttpError(500, "LLM API returned " \o LlmStatusText(status) \o ": " \o body)
       ELSE IF body # LlmJsonBody THEN HttpError(500, "LLM request failed")
       ELSE [status |-> 200, body |-> body]]
  /\ app_pc' = [app_pc EXCEPT ![r] = "done"]
  /\ UNCHANGED << PROXY_AUTH_TOKEN, APP_LLM_API_KEY, app_authorization, app_out >>

\* Any other exception of the POST, a timeout too: 500.
AppUpstreamError(r) ==
  /\ app_pc[r] = "awaiting"
  /\ app_upstream' = [app_upstream EXCEPT ![r] =
       [kind |-> "error", status |-> 0, body |-> ""]]
  /\ app_response' = [app_response EXCEPT ![r] = HttpError(500, "LLM request failed")]
  /\ app_pc' = [app_pc EXCEPT ![r] = "done"]
  /\ UNCHANGED << PROXY_AUTH_TOKEN, APP_LLM_API_KEY, app_authorization, app_out >>

\* ---------------------------------------------------------------- app/utils.minio_logger
\* The concurrent calls of minio_logger.
LogCalls == {"k1", "k2"}

\* A row of query_log.csv.
Row(timestamp, query, sql_query, llm_explanation, llm_choice) ==
  [timestamp |-> timestamp, user_query |-> query, llm_sql |-> sql_query,
   llm_explanation |-> llm_explanation, llm_choice |-> llm_choice]

\* The logs the bucket can hold when the program starts: the header alone,
\* one row of a consenting user, and that row with one of a user who opted
\* out.
ExistingLogs ==
  { << >>,
    << Row("2024-01-01 00:00:00", "bogs in Ohio", "SELECT 1", "counts", "llama3") >>,
    << Row("2024-01-01 00:00:00", "bogs in Ohio", "SELECT 1", "counts", "llama3"),
       Row("2024-01-02 00:00:00", "USER OPTED OUT", "", "", "") >> }

\* The arguments of a call: consent, query, sql_query, llm_explanation,
\* llm_choice.
LogArgs ==
  [consent : BOOLEAN,
   query : {"bogs in Ohio", "fens in Maine"},
   sql_query : {"SELECT 1", "SELECT 2"},
   llm_explanation : {"counts"},
   llm_choice : {"llama3", "qwen3"}]

NoArgs ==
  [consent |-> FALSE, query |-> "", sql_query |-> "", llm_explanation |-> "",
   llm_choice |-> ""]

\* No call of minio_logger, the log as the bucket holds it.
LogQuiet ==
  /\ minio_bound = FALSE
  /\ stored = << >>
  /\ local_file = None
  /\ logger_pc = [k \in LogCalls |-> "idle"]
  /\ logger_args = [k \in LogCalls |-> NoArgs]
  /\ logger_error = [k \in LogCalls |-> ""]
  /\ log_start = [k \in LogCalls |-> << >>]

\* minio_logger is called: `mc = minio.Minio(endpoint, key, secret)`.  The
\* module binds Minio (from variables) and, only if the cng package exports
\* it, the name minio; without it the call ends in a NameError.
minio_logger(k, args) ==
  /\ logger_pc[k] = "idle"
  /\ logger_args' = [logger_args EXCEPT ![k] = args]
  /\ log_start' = [log_start EXCEPT ![k] = stored]
  /\ IF minio_bound
       THEN /\ logger_pc' = [logger_pc EXCEPT ![k] = "fget"]
            /\ UNCHANGED logger_error
       ELSE /\ logger_pc' = [logger_pc EXCEPT ![k] = "raised"]
            /\ logger_error' = [logger_error EXCEPT ![k] = "NameError"]
  /\ UNCHANGED << minio_bound, stored, local_file >>

\* mc.fget_object: the log is downloaded into the local file.
LoggerFetch(k) ==
  /\ logger_pc[k] = "fget"
  /\ local_file' = stored
  /\ logger_pc' = [logger_pc EXCEPT ![k] = "fetched"]
  /\ UNCHANGED << minio_bound, stored, logger_args, logger_error, log_start >>

\* mc.fget_object fails (no connection, no such object).
LoggerFetchFail(k) ==
  /\ logger_pc[k] = "fget"
  /\ logger_pc' = [logger_pc EXCEPT ![k] = "raised"]
  /\ logger_error' = [logger_error EXCEPT ![k] = "S3Error"]
  /\ UNCHANGED << minio_bound, stored, local_file, logger_args, log_start >>

\* pd.read_csv, then `datetime.datetime.now(...)`: the name datetime is the
\* class datetime.datetime (from variables), which has no attribute datetime,
\* so the call ends here in an AttributeError; lines 95-103 are not reached.
LoggerTimestamp(k) ==
  /\ logger_pc[k] = "fetched"
  /\ logger_pc' = [logger_pc EXCEPT ![k] = "raised"]
  /\ logger_error' = [logger_error EXCEPT ![k] = "AttributeError"]
  /\ UNCHANGED << minio_bound, stored, local_file, logger_args, log_start >>

\* ---------------------------------------------------------------- llm_proxy/analyze_logs.parse_log_file
\* The JSON text of a log entry: with a timestamp, without the key, with the
\* timestamp null; a text cut short; a text that is a list.
EntryText(timestamp, q) ==
  "{\"timestamp\": \"" \o timestamp \o "\", \"q\": \"" \o q \o "\"}"
EntryTextNoKey == "{\"q\": \"a\"}"
EntryTextNull == "{\"timestamp\": null, \"q\": \"a\"}"
EntryTextCut == "{\"timestamp\": \"t1\","
EntryTextList == "[1]"

EntryTimestamps == {"t1", "t2", ""}
EntryQs == {"a", "b"}

\* The lines of a log file: the marker the line holds ("REQUEST", "RESPONSE"
\* or none) and the text after it.
LogLines ==
  [marker : {"REQUEST"},
   text : {EntryText("t1", "a"), EntryText("t1", "b"), EntryText("t2", "a"),
           EntryText("", "a"), EntryTextNoKey, EntryTextNull, EntryTextCut,
           EntryTextList}]
    \cup [marker : {"RESPONSE"},
          text : {EntryText("t1", "a"), EntryText("t1", "b"), EntryText("", "a"),
                  EntryTextCut}]
    \cup [marker : {"none"}, text : {EntryText("t1", "a")}]

LogFiles == UNION {[1 .. n -> LogLines] : n \in 0 .. MaxLines}

\* json.loads on the text of a line: a dict, another value, or a
\* JSONDecodeError.
log_json_loads(text) ==
  IF \E t \in EntryTimestamps, q \in EntryQs : text = EntryText(t, q)
    THEN LET tq == CHOOSE p \in EntryTimestamps \X EntryQs : text = EntryText(p[1], p[2])
         IN [kind |-> "dict", value |-> [timestamp |-> tq[1], q |-> tq[2]]]
  ELSE IF text = EntryTextNoKey THEN [kind |-> "dict", value |-> [q |-> "a"]]
  ELSE IF text = EntryTextNull
    THEN [kind |-> "dict", value |-> [timestamp |-> None, q |-> "a"]]
  ELSE IF text = EntryTextList THEN [kind |-> "list", value |-> [q |-> "a"]]
  ELSE [kind |-> "error", value |-> [q |-> "a"]]

\* dict.get(key): None for a missing key.
dict_get(d, key) == IF key \in DOMAIN d THEN d[key] ELSE None

\* A test that finds no duplicate.
IsDuplicateNever(timestamp, seen) == FALSE

\* `if timestamp and timestamp in seen_..._timestamps`
IsDuplicate(timestamp, seen) == ~Falsy(timestamp) /\ timestamp \in seen

\* No file is being parsed.
ParseQuiet ==
  /\ log_file = << >>
  /\ line_no = 0
  /\ requests = << >>
  /\ responses = << >>
  /\ seen_request_timestamps = {}
  /\ seen_response_timestamps = {}
  /\ duplicate_requests = 0
  /\ duplicate_responses = 0
  /\ parse_pc = "reading"

\* One iteration of `for line in f` on a line with the REQUEST marker.
ParseRequestLine ==
  /\ parse_pc = "reading"
  /\ line_no < Len(log_file)
  /\ log_file[line_no + 1].marker = "REQUEST"
  /\ line_no' = line_no + 1
  /\ LET parsed == log_json_loads(log_file[line_no + 1].text)
         timestamp == dict_get(parsed.value, "timestamp")
     IN IF parsed.kind = "error"
          THEN \* except (json.JSONDecodeError, IndexError): pass
               UNCHANGED << requests, seen_request_timestamps, duplicate_requests,
                            parse_pc >>
        ELSE IF parsed.kind = "list"
          THEN \* req_data.get: AttributeError, which no except clause names
               /\ parse_pc' = "raised"
               /\ UNCHANGED << requests, seen_request_timestamps, duplicate_requests >>
        ELSE IF IsDuplicate(timestamp, seen_request_timestamps)
          THEN /\ duplicate_requests' = duplicate_requests + 1
               /\ UNCHANGED << requests, seen_request_timestamps, parse_pc >>
        ELSE /\ seen_request_timestamps' =
                  IF Falsy(timestamp) THEN seen_request_timestamps
                  ELSE seen_request_timestamps \cup {timestamp}
             /\ requests' = Append(requests, parsed.value)
             /\ UNCHANGED << duplicate_requests, parse_pc >>
  /\ UNCHANGED << log_file, responses, seen_response_timestamps, duplicate_responses >>

\* One iteration on a line with the RESPONSE marker and without the REQUEST
\* marker.
ParseResponseLine ==
  /\ parse_pc = "reading"
  /\ line_no < Len(log_file)
  /\ log_file[line_no + 1].marker = "RESPONSE"
  /\ line_no' = line_no + 1
  /\ LET parsed == log_json_loads(log_file[line_no + 1].text)
         timestamp == dict_get(parsed.value, "timestamp")
     IN IF parsed.kind = "error"
          THEN UNCHANGED << responses, seen_response_timestamps, duplicate_responses,
                            parse_pc >>
        ELSE IF parsed.kind = "list"
          THEN /\ parse_pc' = "raised"
               /\ UNCHANGED << responses, seen_response_timestamps, duplicate_responses >>
        ELSE IF IsDuplicate(timestamp, seen_response_timestamps)
          THEN /\ duplicate_responses' = duplicate_responses + 1
               /\ UNCHANGED << responses, seen_response_timestamps, parse_pc >>
        ELSE /\ seen_response_timestamps' =
                  IF Falsy(timestamp) THEN seen_response_timestamps
                  ELSE seen_response_timestamps \cup {timestamp}
             /\ responses' = Append(responses, parsed.value)
             /\ UNCHANGED << duplicate_responses, parse_pc >>
  /\ UNCHANGED << log_file, requests, seen_request_timestamps, duplicate_requests >>

\* One iteration on a line with neither marker.
ParseOtherLine ==
  /\ parse_pc = "reading"
  /\ line_no < Len(log_file)
  /\ log_file[line_no + 1].marker = "none"
  /\ line_no' = line_no + 1
  /\ UNCHANGED << log_file, requests, responses, seen_request_timestamps,
                  seen_response_timestamps, duplicate_requests, duplicate_responses,
                  parse_pc >>

\* The file is read to its end: `return requests, responses`.
ParseReturn ==
  /\ parse_pc = "reading"
  /\ line_no = Len(log_file)
  /\ parse_pc' = "returned"
  /\ UNCHANGED << log_file, line_no, requests, responses, seen_request_timestamps,
                  seen_response_timestamps, duplicate_requests, duplicate_responses >>

\* parse_log_file is called on a file, the other programs at rest.
ParseInit ==
  /\ McpInit
  /\ LlmQuiet
  /\ AppQuiet
  /\ LogQuiet
  /\ log_file \in LogFiles
  /\ line_no = 0
  /\ requests = << >>
  /\ responses = << >>
  /\ seen_request_timestamps = {}
  /\ seen_response_timestamps = {}
  /\ duplicate_requests = 0
  /\ duplicate_responses = 0
  /\ parse_pc = "reading"

ParseNext ==
  \/ ParseRequestLine /\ UNCHANGED not_parse
  \/ ParseResponseLine /\ UNCHANGED not_parse
  \/ ParseOtherLine /\ UNCHANGED not_parse
  \/ ParseReturn /\ UNCHANGED not_parse

ParseSpec == ParseInit /\ [][ParseNext]_all_vars

\* The local proxy started with its environment, the other programs at rest.
AppInit ==
  /\ McpInit
  /\ ParseQuiet
  /\ LlmQuiet
  /\ LogQuiet
  /\ PROXY_AUTH_TOKEN \in TokenValues
  /\ APP_LLM_API_KEY \in ApiKeyValues
  /\ app_pc = [r \in AppReqs |-> "idle"]
  /\ app_authorization = [r \in AppReqs |-> NoHeader]
  /\ app_out = [r \in AppReqs |-> << >>]
  /\ app_upstream = [r \in AppReqs |-> NoUpstream]
  /\ app_response = [r \in AppReqs |-> NoLlmResponse]

AppNext ==
  \E r \in AppReqs :
    \/ \E h \in AppAuthHeaders : app_proxy_chat(r, h) /\ UNCHANGED not_app
    \/ \E status \in LlmStatuses, body \in LlmBodies :
         AppUpstreamReply(r, status, body) /\ UNCHANGED not_app
    \/ AppUpstreamError(r) /\ UNCHANGED not_app

AppSpec == AppInit /\ [][AppNext]_all_vars

\* The app started: a log in the bucket, no local file, the other programs at
\* rest.
LogInit ==
  /\ McpInit
  /\ ParseQuiet
  /\ LlmQuiet
  /\ AppQuiet
  /\ minio_bound \in BOOLEAN
  /\ stored \in ExistingLogs
  /\ local_file = None
  /\ logger_pc = [k \in LogCalls |-> "idle"]
  /\ logger_args = [k \in LogCalls |-> NoArgs]
  /\ logger_error = [k \in LogCalls |-> ""]
  /\ log_start = [k \in LogCalls |-> << >>]

LogNext ==
  \E k \in LogCalls :
    \/ \E args \in LogArgs : minio_logger(k, args) /\ UNCHANGED not_log
    \/ LoggerFetch(k) /\ UNCHANGED not_log
    \/ LoggerFetchFail(k) /\ UNCHANGED not_log
    \/ LoggerTimestamp(k) /\ UNCHANGED not_log

LogSpec == LogInit /\ [][LogNext]_all_vars

\* The LLM proxy started with its environment, the other programs at rest.
LlmInit ==
  /\ McpInit
  /\ ParseQuiet
  /\ AppQuiet
  /\ LogQuiet
  /\ PROXY_KEY \in KeyValues
  /\ LLM_API_KEY \in ApiKeyValues
  /\ llm_pc = [r \in LlmReqs |-> "idle"]
  /\ authorization = [r \in LlmReqs |-> NoHeader]
  /\ llm_out = [r \in LlmReqs |-> << >>]
  /\ llm_upstream = [r \in LlmReqs |-> NoUpstream]
  /\ llm_response = [r \in LlmReqs |-> NoLlmResponse]
  /\ llm_route = [r \in LlmReqs |-> "none"]

LlmNext ==
  \E r \in LlmReqs :
    \/ \E h \in AuthHeaders : proxy_chat(r, h) /\ UNCHANGED not_llm
    \/ \E status \in LlmStatuses, body \in LlmBodies :
         ChatUpstreamReply(r, status, body) /\ UNCHANGED not_llm
    \/ ChatUpstreamTimeout(r) /\ UNCHANGED not_llm
    \/ ChatUpstreamError(r) /\ UNCHANGED not_llm
    \/ \E h \in AuthHeaders : proxy_llm(r, h) /\ UNCHANGED not_llm
    \/ \E status \in LlmStatuses, body \in LlmBodies :
         LlmRelay(r, status, body) /\ UNCHANGED not_llm
    \/ LlmRelayError(r) /\ UNCHANGED not_llm

LlmSpec == LlmInit /\ [][LlmNext]_all_vars

\* The bridge started, the other programs at rest.
Init == McpInit /\ LlmQuiet /\ AppQuiet /\ LogQuiet /\ ParseQuiet

\* One step of call c, its body taken from bodies when it arrives.
McpStep(c, bodies) ==
  \/ \E body \in bodies : proxy_mcp(c, body) /\ UNCHANGED not_mcp
  \/ \E status \in DirectStatuses, content \in DirectBodies, headers \in DirectHeaders :
     DirectRelay(c, status, content, headers) /\ UNCHANGED not_mcp
  \/ DirectFail(c) /\ UNCHANGED not_mcp
  \/ ConnectOk(c) /\ UNCHANGED not_mcp
  \/ \E status \in DirectStatuses : ConnectBadStatus(c, status) /\ UNCHANGED not_mcp
  \/ ConnectFail(c) /\ UNCHANGED not_mcp
  \/ \E e \in SseEvents : ReadEvent(c, e) /\ UNCHANGED not_mcp
  \/ StreamEnd(c) /\ UNCHANGED not_mcp
  \/ ReadTimeout(c) /\ UNCHANGED not_mcp
  \/ \E status \in PostStatuses : NotifPostDone(c, status) /\ UNCHANGED not_mcp
  \/ NotifPostError(c) /\ UNCHANGED not_mcp
  \/ PostTaskStart(c) /\ UNCHANGED not_mcp
  \/ \E status \in PostStatuses : PostTaskDone(c, status) /\ UNCHANGED not_mcp
  \/ PostTaskError(c) /\ UNCHANGED not_mcp
  \/ AfterLoop(c) /\ UNCHANGED not_mcp

Next == \E c \in Calls : McpStep(c, Bodies)

\* A single call, its body drawn from WideBodies.
WideNext == McpStep("c1", WideBodies)

WideSpec == Init /\ [][WideNext]_all_vars

Spec == Init /\ [][Next]_all_vars

\* ---------------------------------------------------------------- properties
HasId(c) == "id" \in DOMAIN message[c]
SseMode == transport = "sse"
Done(c) == pc[c] = "done"
InFlight(c) == pc[c] \in {"connecting", "reading", "notif_post", "after_loop"}
EndpointIdx(log) == {i \in 1 .. Len(log) : log[i].event = "endpoint"}
MessageIdx(log) == {i \in 1 .. Len(log) : log[i].event = "message"}
Min(S) == CHOOSE x \in S : \A y \in S : x <= y
JsonResponse(status, body) ==
  [status |-> status, body |-> body, media_type |-> "application/json"]
ErrorBody(m) == "{\"error\": \"" \o m \o "\"}"
AcceptedBody == "{\"status\": \"accepted\"}"
\* The body a returned payload is written as.
PayloadBody(data) ==
  CASE data = MsgCompact1 -> MsgCanon1
    [] data = MsgCanon2 -> MsgCanon2
    [] OTHER -> "no body"

\* C1: in sse mode a request that succeeds (200) returns the parsed payload of
\* the first `message` event read after the first endpoint event (where the
\* submission is dispatched); that event is the last one the call read, so no
\* later event's payload can be returned, and the payload's id is not compared
\* with the request's.
C1_FirstMessageReturned ==
  \A c \in Calls :
    (SseMode /\ Done(c) /\ HasId(c) /\ response[c].status = 200) =>
      LET log == events[c]
          E == EndpointIdx(log)
      IN /\ E # {}
         /\ LET M == {i \in MessageIdx(log) : i > Min(E)}
            IN /\ M # {}
               /\ MessageIdx(log) = {Min(M)}
               /\ Min(M) = Len(log)
               /\ response[c] = JsonResponse(200, PayloadBody(log[Min(M)].data))

\* A request for id 1 answered 200 with the payload of a reply for id 2, read
\* after the endpoint event and another event.
C1_Witness ==
  \E c \in Calls :
    /\ SseMode /\ Done(c) /\ HasId(c)
    /\ Len(events[c]) = 3
    /\ events[c][1].event = "endpoint"
    /\ events[c][3] = [event |-> "message", data |-> MsgCanon2]
    /\ response[c] = JsonResponse(200, MsgCanon2)

\* C2: in sse mode a notification whose submission completed with a success
\* status is answered 200 {"status": "accepted"}, and the last event the call
\* read is the first endpoint event: nothing after it is read.
C2_NotificationAccepted ==
  \A c \in Calls :
    (SseMode /\ ~HasId(c) /\ pc[c] # "idle" /\ post_status[c] = "success") =>
      /\ Done(c)
      /\ response[c] = JsonResponse(200, AcceptedBody)
      /\ EndpointIdx(events[c]) # {}
      /\ Min(EndpointIdx(events[c])) = Len(events[c])

\* A notification accepted after a ping and the endpoint event.
C2_Witness ==
  \E c \in Calls :
    /\ SseMode /\ ~HasId(c) /\ Done(c)
    /\ post_status[c] = "success"
    /\ Len(events[c]) = 2
    /\ events[c][1].event = "ping"
    /\ response[c].body = AcceptedBody

\* Outcomes that are not about the content of the stream: the stream could not
\* be opened, or it went silent without ending.
StreamFailures == {ConnectMsg, ReadTimeoutMsg, StatusMsg(404), StatusMsg(500)}

\* C3: in sse mode a call whose stream was read to the point the call stopped
\* and held no endpoint event fails with "Did not receive endpoint from SSE
\* server", whatever else the stream held and whatever the message kind.
C3_NoEndpointError ==
  \A c \in Calls :
    (/\ SseMode /\ Done(c)
     /\ event_source[c] # 0
     /\ EndpointIdx(events[c]) = {}
     /\ outcome[c].msg \notin StreamFailures) =>
      response[c] = JsonResponse(500, ErrorBody(NoEndpointMsg))

\* C4: in sse mode a request whose submission POST completed with a 4xx/5xx
\* status is answered 500 with an error payload, also when a well-formed
\* `message` event was received.
C4_SubmissionFailureFails ==
  \A c \in Calls :
    (SseMode /\ HasId(c) /\ Done(c) /\ post_status[c] = "failure") =>
      /\ response[c].status = 500
      /\ outcome[c].kind = "raise"
      /\ response[c].body = ErrorBody(outcome[c].msg)

\* A request that read a well-formed reply and whose submission failed.
C4_Witness ==
  \E c \in Calls :
    /\ SseMode /\ HasId(c) /\ Done(c)
    /\ post_status[c] = "failure"
    /\ response_data[c] = JReply(1)
    /\ response[c].status = 500

\* C5 as stated: in stream mode the caller receives the backend's status and
\* body unchanged and the content-type the backend sent.
C5_RelayedWithBackendContentType ==
  \A c \in Calls :
    (Done(c) /\ outcome[c].kind = "backend") =>
      /\ response[c].status = outcome[c].status
      /\ response[c].body = outcome[c].content
      /\ "content-type" \in DOMAIN outcome[c].headers
      /\ response[c].media_type = outcome[c].headers["content-type"]

\* C5: in stream mode the caller receives the backend's status and body
\* unchanged, with the backend's content-type when it sent one and
\* application/json when it sent none.
C5_RelayedVerbatim ==
  \A c \in Calls :
    (Done(c) /\ outcome[c].kind = "backend") =>
      /\ response[c].status = outcome[c].status
      /\ response[c].body = outcome[c].content
      /\ response[c].media_type =
           IF "content-type" \in DOMAIN outcome[c].headers
             THEN outcome[c].headers["content-type"]
             ELSE "application/json"

\* A 404 of the backend, with a text body, relayed.
C5_Witness ==
  \E c \in Calls :
    /\ transport = "stream" /\ Done(c)
    /\ outcome[c].kind = "backend"
    /\ response[c] = [status |-> 404, body |-> "Not Found", media_type |-> "text/plain"]

\* C6: every open stream is the stream of exactly one in-flight call, the
\* stream of a call is closed when the caller has its response, and no stream
\* has been read by two calls.
C6_OneStreamPerCall ==
  /\ \A s \in open_streams :
       Cardinality({c \in Calls : event_source[c] = s /\ InFlight(c)}) = 1
  /\ \A c \in Calls : Done(c) => event_source[c] \notin open_streams
  /\ \A s \in StreamIds : Cardinality(readers[s]) <= 1

\* Two calls in flight at once, each reading its own open stream.
C6_Witness ==
  /\ \A c \in Calls : pc[c] = "reading" /\ events[c] # << >>
  /\ Cardinality(open_streams) = 2

\* C7: in sse mode, when the caller has its response, the stream, the stream's
\* client and the submission client of the call are closed, whichever way the
\* call ended.
C7_ReleasedOnExit ==
  \A c \in Calls :
    (SseMode /\ Done(c)) =>
      /\ ~sse_client[c]
      /\ ~post_client[c]
      /\ event_source[c] \notin open_streams

\* One call ended by a malformed event with its submission still pending, the
\* other ended with a result.
C7_Witness ==
  \E c, d \in Calls :
    /\ SseMode /\ Done(c) /\ Done(d)
    /\ outcome[c] = Raise(DecodeMsg) /\ post_task[c] = "abandoned"
    /\ outcome[d].kind = "return"

\* C8: in sse mode a call dispatches or issues a submission POST only after it
\* read an endpoint event from its stream; a call that ended without one has
\* issued no POST and is answered 500.
C8_EndpointBeforeSubmission ==
  \A c \in Calls :
    SseMode =>
      /\ (posts[c] # << >> \/ post_task[c] # None) => EndpointIdx(events[c]) # {}
      /\ (Done(c) /\ EndpointIdx(events[c]) = {}) =>
           (posts[c] = << >> /\ response[c].status = 500)

\* A call that read events, none of them an endpoint event, and failed
\* without a POST.
C8_Witness ==
  \E c \in Calls :
    /\ SseMode /\ Done(c)
    /\ Len(events[c]) >= 2
    /\ EndpointIdx(events[c]) = {}
    /\ posts[c] = << >>
    /\ response[c].status = 500

\* C9: in sse mode, if the first `message` event a request read carries a text
\* that is not JSON, the caller gets 500 with the parse failure as the error
\* payload.
C9_MalformedPayloadFails ==
  \A c \in Calls :
    (/\ SseMode /\ HasId(c) /\ Done(c)
     /\ MessageIdx(events[c]) # {}
     /\ events[c][Min(MessageIdx(events[c]))].data = MsgBroken) =>
      response[c] = JsonResponse(500, ErrorBody(DecodeMsg))

\* A request whose submission was dispatched and whose reply was truncated.
C9_Witness ==
  \E c \in Calls :
    /\ SseMode /\ HasId(c) /\ Done(c)
    /\ Len(events[c]) = 2
    /\ events[c][1].event = "endpoint"
    /\ events[c][2] = [event |-> "message", data |-> MsgBroken]
    /\ response[c].status = 500

\* C10: in sse mode the submission URL of a call is the base address followed
\* by the data of the first endpoint event it read; a call issues at most one
\* POST, to that URL, whatever endpoint events follow.
C10_FirstEndpointHonored ==
  \A c \in Calls :
    (SseMode /\ EndpointIdx(events[c]) # {}) =>
      LET url == MCP_SERVER_BASE_URL \o events[c][Min(EndpointIdx(events[c]))].data
      IN /\ endpoint_url[c] = url
         /\ Len(posts[c]) <= 1
         /\ \A i \in 1 .. Len(posts[c]) : posts[c][i].url = url

\* A request that read two endpoint events with different data and posted to
\* the first.
C10_Witness ==
  \E c \in Calls :
    /\ SseMode /\ HasId(c)
    /\ Len(events[c]) >= 2
    /\ events[c][1] = [event |-> "endpoint", data |-> "/messages/?session_id=a"]
    /\ events[c][2] = [event |-> "endpoint", data |-> "/messages/?session_id=b"]
    /\ Len(posts[c]) = 1
    /\ posts[c][1].url = "http://localhost:8001/messages/?session_id=a"

\* C11: in sse mode a request that read an endpoint event, whose submission
\* completed with a success status and whose stream ended without a `message`
\* event is answered 500 "Did not receive response from SSE server".
C11_NoResponseError ==
  \A c \in Calls :
    (/\ SseMode /\ HasId(c) /\ Done(c)
     /\ EndpointIdx(events[c]) # {}
     /\ post_status[c] = "success"
     /\ stream_ended[c]
     /\ MessageIdx(events[c]) = {}) =>
      response[c] = JsonResponse(500, ErrorBody(NoResponseMsg))

\* A request that read the endpoint event and a ping, posted with success and
\* saw the stream end.
C11_Witness ==
  \E c \in Calls :
    /\ SseMode /\ HasId(c) /\ Done(c)
    /\ Len(events[c]) = 2
    /\ events[c][1].event = "endpoint" /\ events[c][2].event = "ping"
    /\ post_status[c] = "success"
    /\ stream_ended[c]
    /\ response[c].status = 500

\* C12: in sse mode the caller gets 200 exactly when send_sse_message returned
\* a result; whatever it raised is answered 500 with the JSON body
\* {"error": str(e)}; the status is 200 or 500, never the submission's own;
\* the missing-endpoint and missing-response messages differ.
C12_FailuresAre500 ==
  /\ NoEndpointMsg # NoResponseMsg
  /\ \A c \in Calls :
       (SseMode /\ Done(c)) =>
         /\ response[c].status = 200 <=> outcome[c].kind = "return"
         /\ outcome[c].kind = "raise" =>
              response[c] = JsonResponse(500, ErrorBody(outcome[c].msg))
         /\ outcome[c].kind \in {"return", "raise"}
         /\ response[c].status \in {200, 500}

\* One call failed for a missing endpoint and the other for a submission
\* answered 404, both shown as 500 with their own message.
C12_Witness ==
  \E c, d \in Calls :
    /\ SseMode /\ Done(c) /\ Done(d)
    /\ response[c] = JsonResponse(500, ErrorBody(NoEndpointMsg))
    /\ post_error[d] = StatusMsg(404)
    /\ response[d] = JsonResponse(500, ErrorBody(StatusMsg(404)))

\* C13: a call opens GET <base>/sse at most once and issues at most one POST
\* (exactly one in stream mode); a call that ended has a response, and one
\* that ended in a failure has an error status, never a 200.
C13_NoRetry ==
  \A c \in Calls :
    /\ connects[c] <= 1
    /\ Len(posts[c]) <= 1
    /\ (transport = "stream" /\ pc[c] \in {"direct", "done"}) => Len(posts[c]) = 1
    /\ Done(c) =>
         /\ response[c] # NoResponse
         /\ outcome[c].kind = "raise" => response[c].status = 500

\* Both calls failed, one at the connection and one at the submission, each
\* after a single attempt.
C13_Witness ==
  \E c, d \in Calls :
    /\ SseMode /\ Done(c) /\ Done(d)
    /\ outcome[c] = Raise(ConnectMsg) /\ connects[c] = 1 /\ posts[c] = << >>
    /\ post_status[d] = "error" /\ Len(posts[d]) = 1
    /\ response[c].status = 500 /\ response[d].status = 500

\* What belongs to one call.
Local(c) ==
  << pc[c], message[c], sse_client[c], post_client[c], event_source[c],
     event_source[c] \in open_streams, endpoint_url[c], response_data[c],
     post_task[c], post_error[c], post_status[c], events[c], posts[c],
     outcome[c], response[c] >>

OwnStreamOnly ==
  \A c \in Calls :
    SseMode =>
      /\ \A i \in 1 .. Len(posts[c]) :
           \E k \in EndpointIdx(events[c]) :
             posts[c][i].url = MCP_SERVER_BASE_URL \o events[c][k].data
      /\ event_source[c] # 0 =>
           /\ readers[event_source[c]] \subseteq {c}
           /\ \A d \in Calls \ {c} : event_source[d] # event_source[c]
      /\ (Done(c) /\ HasId(c) /\ response[c].status = 200) =>
           \E m \in MessageIdx(events[c]) :
             response[c].body = PayloadBody(events[c][m].data)

\* C14: with two calls interleaved, a call posts only to an endpoint read from
\* its own stream, reads a stream no other call reads, returns a payload of
\* its own stream, and every step of one call leaves everything that belongs
\* to the other call as it was.
C14_CallsIndependent ==
  /\ []OwnStreamOnly
  /\ [][\E c \in Calls : \A d \in Calls \ {c} : Local(d)' = Local(d)]_vars

\* A request and a notification served side by side over different session
\* endpoints, both with success.
C14_Witness ==
  \E c, d \in Calls :
    /\ SseMode /\ Done(c) /\ Done(d)
    /\ HasId(c) /\ ~HasId(d)
    /\ response[c].status = 200 /\ response[d].status = 200
    /\ Len(posts[c]) = 1 /\ Len(posts[d]) = 1
    /\ posts[c][1].url # posts[d][1].url

\* C15: in sse mode, while no endpoint event was read, the loop is left only
\* when the stream ends, and the answer "Did not receive endpoint from SSE
\* server" is given only for a stream that ended without an endpoint event.
C15_ReadsUntilEndpoint ==
  \A c \in Calls :
    SseMode =>
      /\ (pc[c] = "after_loop" /\ EndpointIdx(events[c]) = {}) => stream_ended[c]
      /\ (Done(c) /\ response[c] = JsonResponse(500, ErrorBody(NoEndpointMsg))) =>
           (stream_ended[c] /\ EndpointIdx(events[c]) = {})

\* C16: in sse mode every `message` event a call read (each one read is
\* parsed at once) comes after an endpoint event of the same stream, that is
\* after the submission was dispatched.
C16_MessageAfterDispatch ==
  \A c \in Calls :
    SseMode =>
      \A i \in MessageIdx(events[c]) :
        \E k \in EndpointIdx(events[c]) : k < i

\* C17: in sse mode a request whose submission was dispatched is answered only
\* once the submission has completed, with success or with a failure.
C17_SubmissionAwaited ==
  \A c \in Calls :
    (SseMode /\ HasId(c) /\ Done(c) /\ post_task[c] # None) =>
      post_task[c] \in {"ok", "failed"}

\* C18: in stream mode a POST that raised is answered with the plain 500 of
\* the framework, and an answer of the backend reaches the caller with its
\* status and content.
C18_DirectFailureGeneric ==
  \A c \in Calls :
    (transport = "stream" /\ Done(c)) =>
      /\ outcome[c].kind = "raise" =>
           /\ response[c].status = 500
           /\ response[c].body = "Internal Server Error"
           /\ response[c].media_type # "application/json"
      /\ outcome[c].kind = "backend" =>
           /\ response[c].status = outcome[c].status
           /\ response[c].body = outcome[c].content

\* One call whose POST raised and one whose backend answered 500 with a body.
C18_Witness ==
  \E c, d \in Calls :
    /\ transport = "stream" /\ Done(c) /\ Done(d)
    /\ outcome[c].kind = "raise" /\ response[c].status = 500
    /\ outcome[d].kind = "backend"
    /\ response[d].status = 500 /\ response[d].body = "Not Found"

\* The data of the last event a call read.
LastData(c) == events[c][Len(events[c])].data

\* The body a payload would be returned as, the JSON null included.
AnyPayloadBody(data) == IF data = MsgNull THEN "null" ELSE PayloadBody(data)

KeyAfterPrefix(h) ==
  IF h = NoHeader \/ h = << >> THEN None
  ELSE Flatten(Strip(IF Head(h) = "Bearer " THEN Tail(h) ELSE h))

\* C20: a chat request is forwarded to the LLM endpoint only when its
\* Authorization header, the 'Bearer ' prefix and the surrounding white space
\* taken off, equals PROXY_KEY; with a missing, empty or different key the
\* answer is 401 and nothing is sent.
C20_ForwardedOnlyWithProxyKey ==
  \A r \in LlmReqs :
    llm_route[r] = "chat" =>
    /\ llm_out[r] # << >> => KeyAfterPrefix(authorization[r]) = PROXY_KEY
    /\ ( /\ llm_pc[r] = "done"
         /\ ~Falsy(PROXY_KEY)
         /\ (Falsy(KeyAfterPrefix(authorization[r]))
               \/ KeyAfterPrefix(authorization[r]) # PROXY_KEY) )
       => (llm_response[r].status = 401 /\ llm_out[r] = << >>)

\* The submission of call c completed with a failure: a non-success status or
\* an error below HTTP.
PostFailed(c) == post_status[c] \in {"failure", "error"}

\* C25: in sse mode a request whose submission POST failed and whose stream
\* ended without a `message` event is answered 500 with the submission's
\* error, not with "Did not receive response from SSE server".
C25_SubmissionFailurePriority ==
  \A c \in Calls :
    (/\ SseMode /\ HasId(c) /\ Done(c)
     /\ PostFailed(c)
     /\ stream_ended[c]
     /\ MessageIdx(events[c]) = {}) =>
      /\ post_error[c] \in {StatusMsg(404), StatusMsg(500), ConnectMsg}
      /\ response[c] = JsonResponse(500, ErrorBody(post_error[c]))
      /\ response[c] # JsonResponse(500, ErrorBody(NoResponseMsg))

\* A request that read the endpoint event, had its POST answered 404 and saw
\* the stream end with no message.
C25_Witness ==
  \E c \in Calls :
    /\ SseMode /\ HasId(c) /\ Done(c)
    /\ post_status[c] = "failure" /\ post_error[c] = StatusMsg(404)
    /\ stream_ended[c]
    /\ MessageIdx(events[c]) = {}
    /\ response[c].status = 500

\* C26: in sse mode a notification is answered {"status": "accepted"} only
\* when its submission POST completed with a success status; when the POST
\* was answered with a non-success status or failed below HTTP the caller gets
\* 500 with the error as payload.
C26_AcceptedOnlyAfterSuccess ==
  \A c \in Calls :
    (SseMode /\ ~HasId(c) /\ Done(c)) =>
      /\ response[c].body = AcceptedBody =>
           (post_status[c] = "success" /\ Len(posts[c]) = 1)
      /\ response[c].status = 200 => response[c] = JsonResponse(200, AcceptedBody)
      /\ PostFailed(c) =>
           /\ response[c] = JsonResponse(500, ErrorBody(post_error[c]))
           /\ response[c].body # AcceptedBody

\* Two notifications, one whose POST was answered 500 and one whose POST
\* failed at the network, both answered 500.
C26_Witness ==
  \E c, d \in Calls :
    /\ SseMode /\ ~HasId(c) /\ ~HasId(d) /\ Done(c) /\ Done(d)
    /\ post_status[c] = "failure" /\ post_error[c] = StatusMsg(500)
    /\ post_status[d] = "error"
    /\ response[c].status = 500 /\ response[d].status = 500

\* C27: in sse mode a body with the key "id", whatever its value (null too)
\* and with or without "method" and "params", is handled as a request: its
\* POST is a task, it is never awaited in the loop, and it is never answered
\* with the acknowledgment; a body without "id" is handled as a notification:
\* no task is made, the endpoint event leads straight to the awaited POST, and
\* a 200 is the acknowledgment.
C27_ClassifiedByIdKey ==
  \A c \in Calls :
    (SseMode /\ pc[c] # "idle") =>
      /\ HasId(c) =>
           /\ pc[c] # "notif_post"
           /\ response[c].body # AcceptedBody
           /\ endpoint_url[c] # None => post_task[c] # None
           /\ response[c].status = 200 => MessageIdx(events[c]) # {}
      /\ ~HasId(c) =>
           /\ post_task[c] = None
           /\ endpoint_url[c] # None =>
                (pc[c] \in {"notif_post", "done"} /\ MessageIdx(events[c]) = {})
           /\ response[c].status = 200 => response[c] = JsonResponse(200, AcceptedBody)

\* A body whose id is null and that has no method was answered with the
\* payload of a message event.
C27_Witness ==
  \E c \in Calls :
    /\ SseMode /\ Done(c)
    /\ message[c] = [id |-> "null"]
    /\ post_task[c] = "ok"
    /\ response[c] = JsonResponse(200, MsgCanon2)

\* The read loop of call c is over: it read a `message` event or the stream
\* ended.
LoopEnded(c) ==
  stream_ended[c] \/ (events[c] # << >> /\ events[c][Len(events[c])].event = "message")

\* C28: in sse mode the step in which a request's submission fails leaves the
\* call where it is and gives the caller nothing; a call still in its loop
\* has no response; and a caller that was told the submission's failure was
\* told so after the loop had ended.
C28_FailureReportedAfterLoop ==
  /\ [](\A c \in Calls :
          /\ InFlight(c) => response[c] = NoResponse
          /\ (/\ SseMode /\ HasId(c) /\ Done(c) /\ PostFailed(c)
              /\ outcome[c] = Raise(post_error[c])) => LoopEnded(c))
  /\ [][\A c \in Calls :
          (HasId(c) /\ ~PostFailed(c) /\ PostFailed(c)') =>
            (pc'[c] = pc[c] /\ response'[c] = NoResponse /\ outcome'[c] = NoOutcome)]_vars

\* A request whose submission failed is still reading the stream, with two
\* events read and nothing given to the caller.
C28_Witness ==
  \E c \in Calls :
    /\ SseMode /\ HasId(c)
    /\ pc[c] = "reading"
    /\ PostFailed(c)
    /\ Len(events[c]) >= 2
    /\ response[c] = NoResponse

\* The first `message` event call c read carries the JSON text null.
FirstMessageNull(c) ==
  /\ MessageIdx(events[c]) # {}
  /\ events[c][Min(MessageIdx(events[c]))].data = MsgNull

\* C29 as stated: a request whose first `message` event carries null ends
\* in 500 "Did not receive response from SSE server".
C29_NullPayloadNoResponse ==
  \A c \in Calls :
    (SseMode /\ HasId(c) /\ Done(c) /\ FirstMessageNull(c)) =>
      response[c] = JsonResponse(500, ErrorBody(NoResponseMsg))

\* C29: in sse mode a request whose first `message` event carries null stops
\* reading at that event and is answered 500, never with the payload: with
\* the submission's error when the submission failed, else with "Did not
\* receive endpoint from SSE server" when no endpoint event came before, else
\* with "Did not receive response from SSE server".
C29_NullPayloadFails ==
  \A c \in Calls :
    (SseMode /\ HasId(c) /\ FirstMessageNull(c)) =>
      /\ Min(MessageIdx(events[c])) = Len(events[c])
      /\ pc[c] \in {"after_loop", "done"}
      /\ Done(c) =>
           response[c] = JsonResponse(500, ErrorBody(
             IF PostFailed(c) THEN post_error[c]
             ELSE IF endpoint_url[c] = None THEN NoEndpointMsg
             ELSE NoResponseMsg))

\* A request read the endpoint event and then a message event carrying null,
\* its POST succeeded and the answer is the missing-response error.
C29_Witness ==
  \E c \in Calls :
    /\ SseMode /\ HasId(c) /\ Done(c)
    /\ Len(events[c]) = 2
    /\ events[c][1].event = "endpoint"
    /\ events[c][2] = [event |-> "message", data |-> MsgNull]
    /\ post_status[c] = "success"
    /\ response[c] = JsonResponse(500, ErrorBody(NoResponseMsg))

\* C21: whatever the operation, a request goes out to the LLM endpoint with
\* the server's key only for a client whose Authorization header carries the
\* configured proxy key.
C21_KeySentOnlyForAuthorized ==
  \A r \in LlmReqs :
    \A i \in 1 .. Len(llm_out[r]) :
      (~Falsy(LLM_API_KEY) /\ llm_out[r][i].authorization = "Bearer " \o LLM_API_KEY) =>
        (~Falsy(PROXY_KEY) /\ Authorized(authorization[r]))

\* The code 200 of a chat answer and the codes of its failures.
ChatStatuses == {200, 401, 500, 504}

C22_LocalChatAuthorization ==
  \A r \in AppReqs :
    app_pc[r] # "idle" =>
      LET h == app_authorization[r]
          resp == app_response[r]
      IN IF PROXY_AUTH_TOKEN \notin {None, ""}
           THEN /\ h = NoHeader => (resp.status = 401 /\ app_out[r] = << >>)
                /\ (h # NoHeader /\ (h = << >> \/ h[1] # "Bearer ")) =>
                     (resp.status = 401 /\ app_out[r] = << >>)
                /\ (h # NoHeader /\ h # << >> /\ h[1] = "Bearer "
                      /\ Flatten(SubSeq(h, 2, Len(h))) # PROXY_AUTH_TOKEN) =>
                     (resp.status = 403 /\ app_out[r] = << >>)
           ELSE /\ resp.status \notin {401, 403}
                /\ APP_LLM_API_KEY # None => Len(app_out[r]) = 1

\* With the token set, one request sent the token without "Bearer " and got
\* 401, another sent "Bearer wrong" and got 403; nothing went out.
C22_Witness ==
  \E r, q \in AppReqs :
    /\ PROXY_AUTH_TOKEN = "secret"
    /\ app_authorization[r] = << "secret" >> /\ app_response[r].status = 401
    /\ app_authorization[q] = << "Bearer ", "wrong" >> /\ app_response[q].status = 403
    /\ app_out[r] = << >> /\ app_out[q] = << >>

\* Call k of minio_logger is over.
LoggerEnded(k) == logger_pc[k] \in {"returned", "raised"}

\* C23: a call of minio_logger that is over left the earlier rows of the log
\* as they were and appended a row after them, and for a call without
\* consent a row appended after them holds 'USER OPTED OUT' and empty texts.
C23_OneRowAppended ==
  \A k \in LogCalls :
    LoggerEnded(k) =>
      /\ Len(stored) > Len(log_start[k])
      /\ SubSeq(stored, 1, Len(log_start[k])) = log_start[k]
      /\ ~logger_args[k].consent =>
           \E i \in (Len(log_start[k]) + 1) .. Len(stored) :
             /\ stored[i].user_query = "USER OPTED OUT"
             /\ stored[i].llm_sql = ""
             /\ stored[i].llm_explanation = ""
             /\ stored[i].llm_choice = ""

\* Line i of the file holds the marker m and a JSON object after it.
EntryLine(m, i) ==
  log_file[i].marker = m /\ log_json_loads(log_file[i].text).kind = "dict"
EntryOf(i) == log_json_loads(log_file[i].text).value
TimestampOf(i) == dict_get(EntryOf(i), "timestamp")

\* Line i is an entry with marker m that has no timestamp, or whose timestamp
\* no earlier entry with that marker has.
FirstOccurrence(m, i) ==
  /\ EntryLine(m, i)
  /\ \/ TimestampOf(i) \in {None, ""}
     \/ \A j \in 1 .. (i - 1) : EntryLine(m, j) => TimestampOf(j) # TimestampOf(i)

\* The entries of the first occurrences among the first n lines, in file
\* order.
RECURSIVE FirstOccurrences(_, _)
FirstOccurrences(m, n) ==
  IF n = 0 THEN << >>
  ELSE IF FirstOccurrence(m, n) THEN Append(FirstOccurrences(m, n - 1), EntryOf(n))
  ELSE FirstOccurrences(m, n - 1)

\* No two entries of the list have the same timestamp, unless it is empty or
\* missing.
NoSharedTimestamp(list) ==
  \A a, b \in 1 .. Len(list) :
    (a < b /\ dict_get(list[a], "timestamp") \notin {None, ""}) =>
      dict_get(list[a], "timestamp") # dict_get(list[b], "timestamp")

\* C24: the lists parse_log_file returns hold, in file order, the first entry
\* of every timestamp and every entry without timestamp, and nothing else: no
\* timestamp twice; a line whose JSON does not parse is passed over and the
\* parse goes on (it stops only at a JSON value that is no object).
C24_DuplicatesRemoved ==
  /\ NoSharedTimestamp(requests)
  /\ NoSharedTimestamp(responses)
  /\ requests = FirstOccurrences("REQUEST", line_no)
  /\ responses = FirstOccurrences("RESPONSE", line_no)
  /\ parse_pc = "returned" => line_no = Len(log_file)
  /\ parse_pc = "raised" =>
       log_json_loads(log_file[line_no].text).kind = "list"
  /\ (\A i \in 1 .. Len(log_file) :
        log_json_loads(log_file[i].text).kind # "list" \/ log_file[i].marker = "none")
       => parse_pc # "raised"

\* A file of a request, a request line cut short and a request with the
\* first one's timestamp and another content was parsed to its end: the first
\* request alone is returned.
C24_Witness ==
  /\ parse_pc = "returned"
  /\ Len(log_file) = 3
  /\ log_file[1] = [marker |-> "REQUEST", text |-> EntryText("t1", "a")]
  /\ log_file[2] = [marker |-> "REQUEST", text |-> EntryTextCut]
  /\ log_file[3] = [marker |-> "REQUEST", text |-> EntryText("t1", "b")]
  /\ requests = << [timestamp |-> "t1", q |-> "a"] >>
  /\ duplicate_requests = 1

====
